---- MODULE Spec2Model ----
(***************************************************************************)
(* gitbook2pdf: the Downloader class (src/src/downloader.js, the revision  *)
(* at lines 189-394) driven by the command line entry point                *)
(* (src/unnamed/part_000).                                                 *)
(*                                                                         *)
(* A string is a sequence of one-character strings.  The run of the        *)
(* program is one thread of control; every `await` of an external call     *)
(* (browser, page, filesystem) is one action whose outcome, a value or a   *)
(* thrown error, is chosen nondeterministically.  The one promise the      *)
(* code does not await (#expandMenuLinks) settles in an action of its own. *)
(***************************************************************************)
EXTENDS Naturals, Sequences, FiniteSets

\* ------------------------------------------------------------------------
\* Bounds of the model
\* ------------------------------------------------------------------------

\* anchors of the entry document that are visible without expanding a menu
MaxAnchors == 2

\* length of the hrefs href2slug is applied to in SlugSpec
MaxHrefLen == 4

\* ------------------------------------------------------------------------
\* Characters and strings
\* ------------------------------------------------------------------------

LowerAlphabet ==
  << "a", "b", "c", "d", "e", "f", "g", "h", "i", "j", "k", "l", "m",
     "n", "o", "p", "q", "r", "s", "t", "u", "v", "w", "x", "y", "z" >>

UpperAlphabet ==
  << "A", "B", "C", "D", "E", "F", "G", "H", "I", "J", "K", "L", "M",
     "N", "O", "P", "Q", "R", "S", "T", "U", "V", "W", "X", "Y", "Z" >>

Range(s) == { s[i] : i \in DOMAIN s }

IsLower(c) == c \in Range(LowerAlphabet)
IsUpper(c) == c \in Range(UpperAlphabet)
IsDigit(c) == c \in { "0", "1", "2", "3", "4", "5", "6", "7", "8", "9" }

\* String.prototype.toLowerCase, one character
ToLowerChar(c) ==
  IF IsUpper(c)
    THEN LowerAlphabet[CHOOSE i \in DOMAIN UpperAlphabet : UpperAlphabet[i] = c]
    ELSE c

ToLowerCase(s) == [ i \in DOMAIN s |-> ToLowerChar(s[i]) ]

\* s with the string sep inserted after every position i for which gap[i]
RECURSIVE InsertAfter(_, _, _, _)
InsertAfter(s, gap, sep, i) ==
  IF i > Len(s) THEN << >>
  ELSE << s[i] >> \o (IF gap[i] THEN sep ELSE << >>) \o InsertAfter(s, gap, sep, i + 1)

\* every maximal run of characters satisfying the class `in` replaced by rep
\* (String.prototype.replace with a /[class]+/g pattern)
RECURSIVE ReplaceRuns(_, _, _, _)
ReplaceRuns(s, in, rep, i) ==
  IF i > Len(s) THEN << >>
  ELSE IF in[i]
    THEN (IF i > 1 /\ in[i - 1] THEN << >> ELSE rep) \o ReplaceRuns(s, in, rep, i + 1)
    ELSE << s[i] >> \o ReplaceRuns(s, in, rep, i + 1)

\* String.prototype.trim over the whitespace of the alphabet
IsSpace(c) == c = " "

RECURSIVE TrimStart(_)
TrimStart(s) ==
  IF s # << >> /\ IsSpace(Head(s)) THEN TrimStart(Tail(s)) ELSE s

RECURSIVE TrimEnd(_)
TrimEnd(s) ==
  IF s # << >> /\ IsSpace(s[Len(s)]) THEN TrimEnd(SubSeq(s, 1, Len(s) - 1)) ELSE s

Trim(s) == TrimEnd(TrimStart(s))

\* ------------------------------------------------------------------------
\* slugify(href, { preserveCharacters: ['/'] })
\* ------------------------------------------------------------------------

\* decamelize: the four replacements, in order
Decamel1(s) ==
  InsertAfter(s, [ i \in DOMAIN s |->
      /\ i > 1 /\ i < Len(s)
      /\ IsUpper(s[i - 1]) /\ IsUpper(s[i]) /\ IsDigit(s[i + 1]) ], << " " >>, 1)

Decamel2(s) ==
  InsertAfter(s, [ i \in DOMAIN s |->
      /\ i + 2 <= Len(s)
      /\ (IsLower(s[i]) \/ IsDigit(s[i]))
      /\ IsUpper(s[i + 1]) /\ IsUpper(s[i + 2]) ], << " " >>, 1)

Decamel3(s) ==
  InsertAfter(s, [ i \in DOMAIN s |->
      /\ i < Len(s)
      /\ (IsLower(s[i]) \/ IsDigit(s[i]))
      /\ IsUpper(s[i + 1]) ], << " " >>, 1)

Decamel4(s) ==
  InsertAfter(s, [ i \in DOMAIN s |->
      /\ i + 2 <= Len(s)
      /\ IsUpper(s[i]) /\ IsUpper(s[i + 1])
      /\ ((IsLower(s[i + 2]) /\ s[i + 2] # "s") \/ IsDigit(s[i + 2])) ], << " " >>, 1)

Decamelize(s) == Decamel4(Decamel3(Decamel2(Decamel1(s))))

\* the characters the slug keeps: [a-z\d] and the preserved '/'
IsSlugChar(c) == IsLower(c) \/ IsDigit(c) \/ c = "/"

\* removeMootSeparators: '-' runs collapsed, one leading and one trailing '-' cut
RemoveMootSeparators(s) ==
  LET one == ReplaceRuns(s, [ i \in DOMAIN s |-> s[i] = "-" ], << "-" >>, 1)
      lead == IF one # << >> /\ Head(one) = "-" THEN Tail(one) ELSE one
  IN IF lead # << >> /\ lead[Len(lead)] = "-"
       THEN SubSeq(lead, 1, Len(lead) - 1) ELSE lead

Slugify(href) ==
  LET low == ToLowerCase(Decamelize(href))
      sep == ReplaceRuns(low, [ i \in DOMAIN low |-> ~IsSlugChar(low[i]) ], << "-" >>, 1)
  IN RemoveMootSeparators(sep)

\* ------------------------------------------------------------------------
\* Downloader.#href2slug
\* ------------------------------------------------------------------------

Index == << "i", "n", "d", "e", "x" >>

\* slug.replace(/\/+/g, '/').trim()
Normalized(href) ==
  LET slug == Slugify(href)
  IN Trim(ReplaceRuns(slug, [ i \in DOMAIN slug |-> slug[i] = "/" ], << "/" >>, 1))

\* the slug with its trailing '/' left in place
KeepTrailingSlash(s) == s

\* slug.replace(/\/$/, '')
StripTrailingSlash(s) ==
  IF s # << >> /\ s[Len(s)] = "/" THEN SubSeq(s, 1, Len(s) - 1) ELSE s

href2slug(href) ==
  LET slug == Normalized(href)
  IN IF slug = << "/" >> THEN Index ELSE StripTrailingSlash(slug)

\* ------------------------------------------------------------------------
\* Settings, output path, URL resolution
\* ------------------------------------------------------------------------

\* Downloader.defaults.outDir
outDir == << "p", "a", "g", "e", "s" >>

PdfExt == << ".", "p", "d", "f" >>

\* path.join(a, b): both joined by '/', runs of '/' normalised to one
PathJoin(a, b) ==
  LET raw == a \o << "/" >> \o b
  IN ReplaceRuns(raw, [ i \in DOMAIN raw |-> raw[i] = "/" ], << "/" >>, 1)

\* path.dirname(p): what precedes the last '/'
RECURSIVE PathDirname(_)
PathDirname(p) ==
  IF p = << >> THEN << "." >>
  ELSE IF p[Len(p)] = "/" THEN SubSeq(p, 1, Len(p) - 1)
  ELSE PathDirname(SubSeq(p, 1, Len(p) - 1))

\* const outPath = path.join(this.settings.outDir, `${slug}.pdf`)
OutPath(href) == PathJoin(outDir, href2slug(href) \o PdfExt)

\* const outDir = path.dirname(outPath)
OutDirOf(href) == PathDirname(OutPath(href))

\* fs.mkdir(dir, { recursive: true }) creates dir and its missing ancestors
RECURSIVE Ancestors(_)
Ancestors(dir) ==
  IF dir = << >> \/ dir = << "." >> THEN { }
  ELSE { dir } \cup (IF \E i \in DOMAIN dir : dir[i] = "/" THEN Ancestors(PathDirname(dir)) ELSE { })

\* the entry URL the operator gives: scheme https, this host
EntryHost == << "a" >>

Invalid == [ host |-> << >>, path |-> << >> ]

RECURSIVE SkipSlashes(_)
SkipSlashes(s) ==
  IF s # << >> /\ Head(s) = "/" THEN SkipSlashes(Tail(s)) ELSE s

\* the prefix of s before its first character of the set stop
RECURSIVE Before(_, _)
Before(s, stop) ==
  IF s = << >> \/ Head(s) \in stop THEN << >> ELSE << Head(s) >> \o Before(Tail(s), stop)

\* new URL(href, targetURL) for an href that begins with '/', against an
\* https base.  '//...' is a scheme-relative reference: the slashes are skipped
\* and what follows, up to '/' or '#', is the host; an empty host or a host
\* holding a forbidden code point (a space) is a TypeError (Invalid).  Any
\* other href replaces the path and keeps the base's host.
NewURL(href) ==
  IF Len(href) >= 2 /\ href[1] = "/" /\ href[2] = "/"
    THEN LET rest == SkipSlashes(href)
             host == Before(rest, { "/", "#" })
             tail == Before(SubSeq(rest, Len(host) + 1, Len(rest)), { "#" })
         IN IF host = << >> \/ " " \in Range(host) THEN Invalid
            ELSE [ host |-> ToLowerCase(host),
                   path |-> IF tail = << >> THEN << "/" >> ELSE tail ]
    ELSE [ host |-> EntryHost, path |-> Before(href, { "#" }) ]

\* ------------------------------------------------------------------------
\* The entry document and link discovery
\* ------------------------------------------------------------------------

\* hrefs an anchor of the entry document may carry
HrefPool ==
  { << "/" >>,
    << "/", "a" >>,
    << "/", "a", "/" >>,
    << "/", "/" >>,
    << "/", "/", "b" >>,
    << "/", "A" >>,
    << "h", ":", "/", "/", "b" >> }

\* hrefs of the anchors a collapsed menu entry hides until it is clicked
MenuPool == { << "/", "b" >> }

RECURSIVE SeqsUpTo(_, _)
SeqsUpTo(S, n) ==
  IF n = 0 THEN { << >> }
  ELSE LET shorter == SeqsUpTo(S, n - 1)
       IN shorter \cup { Append(s, x) : s \in { t \in shorter : Len(t) = n - 1 }, x \in S }

\* a rendered entry page: whether it carries 'body > .gitbook-root', the hrefs
\* of its visible anchors in document order, the hrefs behind its menu
Documents ==
  [ root : BOOLEAN,
    anchors : SeqsUpTo(HrefPool, MaxAnchors),
    menu : { << >> } \cup { << h >> : h \in MenuPool } ]

\* the hrefs kept as the array they were collected in
ArrayOf(s) == s

\* new Set(array): first occurrences, in insertion order
RECURSIVE NewSet(_)
NewSet(s) ==
  IF s = << >> THEN << >>
  ELSE LET init == NewSet(SubSeq(s, 1, Len(s) - 1))
           last == s[Len(s)]
       IN IF last \in Range(init) THEN init ELSE Append(init, last)

\* $('a[href^="/"]') mapped to the href attributes
SelectRootRelative(hrefs) ==
  SelectSeq(hrefs, LAMBDA h : h # << >> /\ Head(h) = "/")

\* Downloader.#collectLinks
collectLinks(c) == NewSet(SelectRootRelative(c.anchors))

\* #runInternal without the platform check
AnyWebsite(c) == TRUE

\* Downloader.#isGitBookWebsite
isGitBookWebsite(c) == c.root

\* ------------------------------------------------------------------------
\* State
\* ------------------------------------------------------------------------

VARIABLES
  doc,          \* the document the entry URL renders to
  pc,           \* where the thread of control is suspended
  phase,        \* "Discovering", "Archiving" or "Finished"
  browser,      \* this.browser: "none" (undefined), "open", "closed"
  launchCalls,  \* calls of puppeteer.launch
  closeCalls,   \* calls of browser.close
  pages,        \* browsing contexts (pages) currently open
  entry,        \* outcome of the entry navigation: "none", "ok", "notok", "throw"
  expandMenu,   \* the promise of #expandMenuLinks: "idle", "pending", "done", "rejected"
  content,      \* what page.content() returned, loaded into cheerio
  links,        \* the Set #collectLinks returned, in insertion order
  i,            \* position of the for..of loop in links
  slug,         \* const slug of the last #downloadLink call
  outPath,      \* const outPath of that call
  url,          \* const url of that call
  attempted,    \* the links #downloadPage was called for, in order, each
                \* with the slug and the output path computed for it
  navigated,    \* URLs the archive pages were sent to
  loaded,       \* hrefs whose page loaded with an ok response
  mkdirs,       \* hrefs whose output directory was created
  rendered,     \* hrefs whose PDF was written, in order
  logged,       \* hrefs whose failure #downloadPage caught and logged
  warned,       \* hrefs skipped with the empty-slug warning
  dirs,         \* directories on disk
  files,        \* files on disk
  thrown,       \* the error propagating out of #runInternal, or "none"
  thrownIn,     \* the phase it was thrown in
  rejected,     \* run() rejected
  exitCode      \* process exit status, read once pc = "exited"

vars ==
  << doc, pc, phase, browser, launchCalls, closeCalls, pages, entry, expandMenu,
     content, links, i, slug, outPath, url, attempted, navigated, loaded, mkdirs, rendered, logged,
     warned, dirs, files, thrown, thrownIn, rejected, exitCode >>

browserVars == << browser, launchCalls, closeCalls >>
discoveryVars == << entry, expandMenu, content, links >>
archiveVars == << slug, outPath, url, attempted, navigated, loaded, mkdirs, rendered, logged, warned >>
diskVars == << dirs, files >>
exitVars == << rejected, exitCode >>
errorVars == << thrown, thrownIn >>

Init ==
  /\ doc \in Documents
  /\ pc = "run"
  /\ phase = "Discovering"
  /\ browser = "none"
  /\ launchCalls = 0
  /\ closeCalls = 0
  /\ pages = 0
  /\ entry = "none"
  /\ expandMenu = "idle"
  /\ content = [ root |-> FALSE, anchors |-> << >> ]
  /\ links = << >>
  /\ i = 1
  /\ slug = << >>
  /\ outPath = << >>
  /\ url = Invalid
  /\ attempted = << >>
  /\ navigated = { }
  /\ loaded = { }
  /\ mkdirs = { }
  /\ rendered = << >>
  /\ logged = { }
  /\ warned = { }
  /\ dirs = { }
  /\ files = { }
  /\ thrown = "none"
  /\ thrownIn = "none"
  /\ rejected = FALSE
  /\ exitCode = 0

\* an error leaves #runInternal: control passes to the catch clause of run()
Throw(kind) ==
  /\ thrown' = kind
  /\ thrownIn' = phase
  /\ pc' = "run_catch"

\* the anchors in the DOM of the entry page
Dom == doc.anchors \o (IF expandMenu = "done" THEN doc.menu ELSE << >>)

\* ------------------------------------------------------------------------
\* Downloader.run and the discovery half of #runInternal
\* ------------------------------------------------------------------------

\* this.browser = await puppeteer.launch(...)
Launch ==
  /\ pc = "run"
  /\ launchCalls' = launchCalls + 1
  /\ \/ /\ browser' = "open"
        /\ pc' = "d_newPage"
        /\ UNCHANGED errorVars
     \/ /\ Throw("launch")
        /\ UNCHANGED browser
  /\ UNCHANGED << doc, phase, closeCalls, pages, discoveryVars, i, archiveVars,
                  diskVars, exitVars >>

\* const page = await this.browser.newPage()
DiscoveryNewPage ==
  /\ pc = "d_newPage"
  /\ \/ /\ pages' = pages + 1
        /\ pc' = "d_goto"
        /\ UNCHANGED errorVars
     \/ /\ Throw("newPage")
        /\ UNCHANGED pages
  /\ UNCHANGED << doc, phase, browserVars, discoveryVars, i, archiveVars,
                  diskVars, exitVars >>

\* const response = await page.goto(targetURL, ...); the response.ok() check;
\* this.#expandMenuLinks(page), whose promise is dropped; page.content() is
\* called
DiscoveryGoto ==
  /\ pc = "d_goto"
  /\ \E response \in { "ok", "notok", "throw" } :
       /\ entry' = response
       /\ IF response = "ok"
            THEN /\ expandMenu' = "pending"
                 /\ pc' = "d_content"
                 /\ UNCHANGED errorVars
            ELSE /\ Throw(IF response = "notok" THEN "status" ELSE "navigation")
                 /\ UNCHANGED expandMenu
  /\ UNCHANGED << doc, phase, browserVars, pages, content, links, i, archiveVars,
                  diskVars, exitVars >>

\* the page.evaluate of #expandMenuLinks has clicked the menu entries
ExpandMenuResolved ==
  /\ expandMenu = "pending"
  /\ pc \in { "d_content", "d_close" }
  /\ expandMenu' = "done"
  /\ UNCHANGED << doc, pc, phase, browserVars, pages, entry, content, links, i,
                  archiveVars, diskVars, errorVars, exitVars >>

\* the page.evaluate of #expandMenuLinks failed; nothing awaits the promise
ExpandMenuRejected ==
  /\ expandMenu = "pending"
  /\ expandMenu' = "rejected"
  /\ UNCHANGED << doc, pc, phase, browserVars, pages, entry, content, links, i,
                  archiveVars, diskVars, errorVars, exitVars >>

\* const content = await page.content(); const $ = cheerio.load(content);
\* page.close() is called
DiscoveryContent ==
  /\ pc = "d_content"
  /\ \/ /\ content' = [ root |-> doc.root, anchors |-> Dom ]
        /\ pc' = "d_close"
        /\ UNCHANGED errorVars
     \/ /\ Throw("content")
        /\ UNCHANGED content
  /\ UNCHANGED << doc, phase, browserVars, pages, entry, expandMenu, links, i,
                  archiveVars, diskVars, exitVars >>

\* await page.close(): a pending evaluation of the closed page is rejected
DiscoveryClose ==
  /\ pc = "d_close"
  /\ \/ /\ pages' = pages - 1
        /\ expandMenu' = IF expandMenu = "pending" THEN "rejected" ELSE expandMenu
        /\ pc' = "validate"
        /\ UNCHANGED errorVars
     \/ /\ Throw("close")
        /\ UNCHANGED << pages, expandMenu >>
  /\ UNCHANGED << doc, phase, browserVars, entry, content, links, i, archiveVars,
                  diskVars, exitVars >>

\* if (!this.#isGitBookWebsite($)) throw ...; const links = this.#collectLinks($)
Validate ==
  /\ pc = "validate"
  /\ IF isGitBookWebsite(content)
       THEN /\ links' = collectLinks(content)
            /\ phase' = "Archiving"
            /\ pc' = "loop"
            /\ UNCHANGED errorVars
       ELSE /\ Throw("notGitBook")
            /\ UNCHANGED << links, phase >>
  /\ UNCHANGED << doc, browserVars, pages, entry, expandMenu, content, i,
                  archiveVars, diskVars, exitVars >>

\* ------------------------------------------------------------------------
\* The archiving half: the for..of loop, #downloadLink, #downloadPage
\* ------------------------------------------------------------------------

\* #downloadLink as the earlier revision wrote it: fs.mkdir before #downloadPage
DownloadLinkMkdirFirst(href) ==
  /\ slug' = href2slug(href)
  /\ IF href2slug(href) = << >>
       THEN /\ warned' = warned \cup { href }
            /\ i' = i + 1
            /\ pc' = "loop"
            /\ UNCHANGED << outPath, url, attempted, errorVars, mkdirs, dirs >>
       ELSE /\ outPath' = OutPath(href)
            /\ dirs' = dirs \cup Ancestors(OutDirOf(href))
            /\ mkdirs' = mkdirs \cup { href }
            /\ IF NewURL(href) = Invalid
                 THEN /\ Throw("url")
                      /\ UNCHANGED << url, warned, i, attempted >>
                 ELSE /\ url' = NewURL(href)
                      /\ attempted' = Append(attempted,
                           [ href |-> href, slug |-> slug', outPath |-> outPath' ])
                      /\ pc' = "a_newPage"
                      /\ UNCHANGED << warned, i, errorVars >>

\* #downloadLink up to the first await of #downloadPage: the slug, the empty
\* slug warning, outPath, new URL(href, targetURL), browser.newPage() called
DownloadLink(href) ==
  /\ slug' = href2slug(href)
  /\ IF href2slug(href) = << >>
       THEN /\ warned' = warned \cup { href }
            /\ i' = i + 1
            /\ pc' = "loop"
            /\ UNCHANGED << outPath, url, attempted, errorVars, mkdirs, dirs >>
       ELSE /\ outPath' = OutPath(href)
            /\ IF NewURL(href) = Invalid
                 THEN /\ Throw("url")
                      /\ UNCHANGED << url, warned, i, attempted, mkdirs, dirs >>
                 ELSE /\ url' = NewURL(href)
                      /\ attempted' = Append(attempted,
                           [ href |-> href, slug |-> slug', outPath |-> outPath' ])
                      /\ pc' = "a_newPage"
                      /\ UNCHANGED << warned, i, errorVars, mkdirs, dirs >>

\* for (let href of links) { await this.#downloadLink(targetURL, href) }
Loop ==
  /\ pc = "loop"
  /\ IF i <= Len(links)
       THEN DownloadLink(links[i])
       ELSE /\ pc' = "run_finally"
            /\ UNCHANGED << slug, outPath, url, warned, i, attempted, errorVars,
                            mkdirs, dirs >>
  /\ UNCHANGED << doc, phase, browserVars, pages, discoveryVars, navigated, loaded,
                  rendered, logged, files, exitVars >>

\* const page = await this.browser.newPage(), before the try of #downloadPage
ArchiveNewPage ==
  /\ pc = "a_newPage"
  /\ \/ /\ pages' = pages + 1
        /\ pc' = "a_goto"
        /\ UNCHANGED errorVars
     \/ /\ Throw("newPage")
        /\ UNCHANGED pages
  /\ UNCHANGED << doc, phase, browserVars, discoveryVars, i, archiveVars, diskVars,
                  exitVars >>

\* #downloadPage without its finally: a caught failure goes on to the next link
CaughtWithoutFinally(href) ==
  /\ logged' = logged \cup { href }
  /\ i' = i + 1
  /\ pc' = "loop"
  /\ UNCHANGED pages

\* catch (e) { this.#logger.error(...) } of #downloadPage, then its finally
Caught(href) ==
  /\ logged' = logged \cup { href }
  /\ pc' = "a_close"
  /\ UNCHANGED << i, pages >>

\* const response = await page.goto(url.toString(), ...); the response.ok()
\* check; the callback is called and calls fs.mkdir
ArchiveGoto ==
  /\ pc = "a_goto"
  /\ navigated' = navigated \cup { url }
  /\ \E response \in { "ok", "notok", "throw" } :
       IF response = "ok"
         THEN /\ loaded' = loaded \cup { links[i] }
              /\ pc' = "a_mkdir"
              /\ UNCHANGED << logged, i, pages >>
         ELSE /\ Caught(links[i])
              /\ UNCHANGED loaded
  /\ UNCHANGED << doc, phase, browserVars, discoveryVars, slug, outPath, url, attempted, mkdirs,
                  rendered, warned, diskVars, errorVars, exitVars >>

\* await fs.mkdir(outDir, { recursive: true }), in the callback
ArchiveMkdir ==
  /\ pc = "a_mkdir"
  /\ \/ /\ dirs' = dirs \cup Ancestors(PathDirname(outPath))
        /\ mkdirs' = mkdirs \cup { links[i] }
        /\ pc' = "a_prepare"
        /\ UNCHANGED << logged, i, pages >>
     \/ /\ Caught(links[i])
        /\ UNCHANGED << dirs, mkdirs >>
  /\ UNCHANGED << doc, phase, browserVars, discoveryVars, slug, outPath, url, attempted, navigated,
                  loaded, rendered, warned, files, errorVars, exitVars >>

\* await this.#preparePage(page), in the callback
ArchivePrepare ==
  /\ pc = "a_prepare"
  /\ \/ /\ pc' = "a_pdf"
        /\ UNCHANGED << logged, i, pages >>
     \/ Caught(links[i])
  /\ UNCHANGED << doc, phase, browserVars, discoveryVars, slug, outPath, url, attempted, navigated,
                  loaded, mkdirs, rendered, warned, diskVars, errorVars, exitVars >>

\* await page.pdf({ path, ...this.settings.pdfOptions })
ArchivePdf ==
  /\ pc = "a_pdf"
  /\ \/ /\ files' = files \cup { outPath }
        /\ rendered' = Append(rendered, links[i])
        /\ pc' = "a_close"
        /\ UNCHANGED << logged, i, pages >>
     \/ /\ Caught(links[i])
        /\ UNCHANGED << files, rendered >>
  /\ UNCHANGED << doc, phase, browserVars, discoveryVars, slug, outPath, url, attempted, navigated,
                  loaded, mkdirs, warned, dirs, errorVars, exitVars >>

\* finally { await page.close() } of #downloadPage; #downloadLink returns
ArchiveClose ==
  /\ pc = "a_close"
  /\ \/ /\ pages' = pages - 1
        /\ i' = i + 1
        /\ pc' = "loop"
        /\ UNCHANGED errorVars
     \/ /\ Throw("close")
        /\ UNCHANGED << pages, i >>
  /\ UNCHANGED << doc, phase, browserVars, discoveryVars, archiveVars, diskVars,
                  exitVars >>

\* ------------------------------------------------------------------------
\* The catch and finally clauses of run(), and the command line's action
\* ------------------------------------------------------------------------

\* catch (e) { this.#logger.fatal(e.toString()); throw e }
RunCatch ==
  /\ pc = "run_catch"
  /\ rejected' = TRUE
  /\ pc' = "run_finally"
  /\ UNCHANGED << doc, phase, browserVars, pages, discoveryVars, i, archiveVars,
                  diskVars, errorVars, exitCode >>

\* finally { await this.browser?.close() }: the run as the earlier revision
\* ended it, leaving through process.exit(1) with the browser open
RunFinallyOnSuccessOnly ==
  /\ pc = "run_finally"
  /\ phase' = "Finished"
  /\ pc' = "cli"
  /\ IF browser = "none" \/ rejected
       THEN UNCHANGED << browser, closeCalls, pages >>
       ELSE /\ closeCalls' = closeCalls + 1
            /\ browser' = "closed"
            /\ pages' = 0
  /\ UNCHANGED << doc, launchCalls, discoveryVars, i, archiveVars, diskVars,
                  errorVars, exitVars >>

\* finally { await this.browser?.close() }: closing the browser closes its pages
RunFinally ==
  /\ pc = "run_finally"
  /\ phase' = "Finished"
  /\ pc' = "cli"
  /\ IF browser = "none"
       THEN UNCHANGED << browser, closeCalls, pages >>
       ELSE /\ closeCalls' = closeCalls + 1
            /\ browser' = "closed"
            /\ pages' = 0
  /\ UNCHANGED << doc, launchCalls, discoveryVars, i, archiveVars, diskVars,
                  errorVars, exitVars >>

\* try { await downloader.run(url) } catch { process.exit(1) }
CliAction ==
  /\ pc = "cli"
  /\ exitCode' = IF rejected THEN 1 ELSE 0
  /\ pc' = "exited"
  /\ UNCHANGED << doc, phase, browserVars, pages, discoveryVars, i, archiveVars,
                  diskVars, errorVars, rejected >>

Next ==
  \/ Launch
  \/ DiscoveryNewPage
  \/ DiscoveryGoto
  \/ ExpandMenuResolved
  \/ ExpandMenuRejected
  \/ DiscoveryContent
  \/ DiscoveryClose
  \/ Validate
  \/ Loop
  \/ ArchiveNewPage
  \/ ArchiveGoto
  \/ ArchiveMkdir
  \/ ArchivePrepare
  \/ ArchivePdf
  \/ ArchiveClose
  \/ RunCatch
  \/ RunFinally
  \/ CliAction

Spec == Init /\ [][Next]_vars

\* ------------------------------------------------------------------------
\* #href2slug on its own: the loop entered with one link of any spelling
\* ------------------------------------------------------------------------

SlugAlphabet == { "/", "a", "B", " ", "#", "-" }

GettingStarted ==
  << "/", "G", "e", "t", "t", "i", "n", "g", " ",
     "S", "t", "a", "r", "t", "e", "d", "/" >>

RepeatedSeparators == << "/", "/", "a", "/", "/", "/", "b", "/", "/" >>

SlugHrefs ==
  SeqsUpTo(SlugAlphabet, MaxHrefLen) \cup { GettingStarted, RepeatedSeparators }

SlugInit ==
  /\ doc = [ root |-> TRUE, anchors |-> << >>, menu |-> << >> ]
  /\ pc = "loop"
  /\ phase = "Archiving"
  /\ browser = "open"
  /\ launchCalls = 1
  /\ closeCalls = 0
  /\ pages = 0
  /\ entry = "ok"
  /\ expandMenu = "done"
  /\ content = [ root |-> TRUE, anchors |-> << >> ]
  /\ \E href \in SlugHrefs : links = << href >>
  /\ i = 1
  /\ slug = << >>
  /\ outPath = << >>
  /\ url = Invalid
  /\ attempted = << >>
  /\ navigated = { }
  /\ loaded = { }
  /\ mkdirs = { }
  /\ rendered = << >>
  /\ logged = { }
  /\ warned = { }
  /\ dirs = { }
  /\ files = { }
  /\ thrown = "none"
  /\ thrownIn = "none"
  /\ rejected = FALSE
  /\ exitCode = 0

SlugNext == Loop

SlugSpec == SlugInit /\ [][SlugNext]_vars

\* ------------------------------------------------------------------------
\* Properties
\* ------------------------------------------------------------------------

Ended == pc \in { "cli", "exited" }

NoDuplicates(s) == \A m, n \in DOMAIN s : s[m] = s[n] => m = n

\* the failures of one link's archiving that are to stay with that link
PerLinkErrors ==
  { "url", "newPage", "navigation", "status", "prepare", "mkdir", "pdf" }

\* C1: no error raised for one link, while resolving its href to a URL,
\* opening or loading its page, on a non-2xx response, preparing the DOM,
\* creating the directory or rendering the PDF, leaves the archiving loop.
C1_PerLinkFailureIsolated ==
  thrownIn = "Archiving" => thrown \notin PerLinkErrors

\* C2: the browser is launched once; on every way out of run() on which it
\* was launched, close has been called exactly once, and never twice.
C2_BrowserLifecycle ==
  /\ launchCalls <= 1
  /\ closeCalls <= 1
  /\ Ended => /\ launchCalls = 1
              /\ browser # "open"
              /\ closeCalls = (IF browser = "none" THEN 0 ELSE 1)
              /\ thrown # "launch" => closeCalls = 1

C2_Witness ==
  /\ pc = "exited"
  /\ thrown = "notGitBook"
  /\ browser = "closed"
  /\ closeCalls = 1

\* C3: the process exits non-zero if and only if the discovery phase failed.
C3_ExitStatus ==
  pc = "exited" => (exitCode # 0 <=> thrownIn = "Discovering")

\* C4: when the entry navigation throws or answers not ok, or the entry page
\* lacks the platform root marker, no link is archived (no archive page, no
\* directory, no PDF) and run() rejects.
C4_DiscoveryFailureAborts ==
  (entry \in { "notok", "throw" } \/ ~doc.root) =>
    /\ phase # "Archiving"
    /\ attempted = << >>
    /\ navigated = { }
    /\ dirs = { }
    /\ files = { }
    /\ Ended => rejected

C4_Witness ==
  /\ pc = "exited"
  /\ entry = "ok"
  /\ ~doc.root
  /\ collectLinks(content) # << >>
  /\ rejected
  /\ attempted = << >>

\* directory d lies on the way from the root of the tree to the file at path
IsAncestorDir(d, path) ==
  /\ Len(d) < Len(path)
  /\ SubSeq(path, 1, Len(d)) = d
  /\ path[Len(d) + 1] = "/"

\* C5: a link's output directory is created only once its page has loaded with
\* an ok response, and before its PDF is written; a link that failed to load
\* has had no directory created for it.
C5_LazyDirectory ==
  /\ mkdirs \subseteq loaded
  /\ Range(rendered) \subseteq mkdirs
  /\ pc = "a_pdf" => links[i] \in mkdirs
  /\ \A d \in dirs : \E a \in Range(attempted) :
       a.href \in loaded /\ IsAncestorDir(d, a.outPath)
  /\ \A h \in logged : h \notin loaded => h \notin mkdirs

C5_Witness ==
  /\ \E h \in logged : h \notin loaded
  /\ dirs = { }
  /\ pc = "loop"
  /\ i > 1

\* C6: the URL a discovered link resolves to is of the entry URL's origin, and
\* no archive page is sent anywhere else.
C6_SameOriginOnly ==
  /\ url # Invalid => url.host = EntryHost
  /\ \A u \in navigated : u.host = EntryHost

\* C7 as stated: duplicate hrefs are archived once, and two distinct discovered
\* links never share an output path, so every rendered link has a file of its
\* own.
C7_DistinctLinksDistinctFiles ==
  /\ NoDuplicates(links)
  /\ NoDuplicates(attempted)
  /\ \A m, n \in DOMAIN attempted :
       m # n => attempted[m].outPath # attempted[n].outPath
  /\ Cardinality(files) = Len(rendered)

\* the slug as path.join leaves it in the output path: without a leading '/'
RelativeSlug(sl) == IF sl # << >> /\ Head(sl) = "/" THEN Tail(sl) ELSE sl

\* C7 amended: duplicate hrefs are archived once and every rendered link's PDF
\* is at its output path; two distinct discovered links share an output path
\* exactly when their slugs agree up to a leading '/', and then share one file.
C7_OnePdfPerSlug ==
  /\ NoDuplicates(links)
  /\ NoDuplicates(attempted)
  /\ NoDuplicates(rendered)
  /\ \A a \in Range(attempted) :
       a.outPath = outDir \o << "/" >> \o RelativeSlug(a.slug) \o PdfExt
  /\ files = { a.outPath : a \in { b \in Range(attempted) : b.href \in Range(rendered) } }
  /\ \A a, b \in Range(attempted) :
       a.outPath = b.outPath <=> RelativeSlug(a.slug) = RelativeSlug(b.slug)

C7_Witness ==
  /\ pc = "exited"
  /\ Len(rendered) = 2
  /\ rendered[1] # rendered[2]
  /\ Cardinality(files) = 1

NoDoubledSlash(s) == \A n \in DOMAIN s : n > 1 => ~(s[n - 1] = "/" /\ s[n] = "/")
NoTrailingSlash(s) == s = << >> \/ s[Len(s)] # "/"
NoLeadingSlash(s) == s = << >> \/ Head(s) # "/"

\* the loop of SlugSpec has computed the slug of its link
SlugComputed == pc # "loop" \/ i > 1

\* C8 as stated: the slug is empty, or 'index' (when the normalized href is
\* '/'), or a relative path with no doubled, no trailing and no leading '/';
\* '//a///b//' gives 'a/b' and '/Getting Started/' gives 'getting-started'.
C8_SlugIsRelativePath ==
  SlugComputed =>
    /\ Normalized(links[1]) = << "/" >> <=> slug = Index
    /\ \/ slug = << >>
       \/ slug = Index
       \/ NoDoubledSlash(slug) /\ NoTrailingSlash(slug) /\ NoLeadingSlash(slug)
    /\ links[1] = RepeatedSeparators => slug = << "a", "/", "b" >>
    /\ links[1] = GettingStarted =>
         slug = << "g", "e", "t", "t", "i", "n", "g", "-",
                   "s", "t", "a", "r", "t", "e", "d" >>

\* C8 amended: the slug is empty, or 'index' (when the normalized href is '/'),
\* or a path with no doubled and no trailing '/', which keeps one leading '/'
\* when the href begins with '/'; '//a///b//' gives '/a/b' and
\* '/Getting Started/' gives '/getting-started'.
C8_SlugShape ==
  SlugComputed =>
    /\ Normalized(links[1]) = << "/" >> <=> slug = Index
    /\ \/ slug = << >>
       \/ slug = Index
       \/ /\ NoDoubledSlash(slug)
          /\ NoTrailingSlash(slug)
          /\ (links[1] # << >> /\ Head(links[1]) = "/") => Head(slug) = "/"
    /\ links[1] = RepeatedSeparators => slug = << "/", "a", "/", "b" >>
    /\ links[1] = GettingStarted =>
         slug = << "/", "g", "e", "t", "t", "i", "n", "g", "-",
                   "s", "t", "a", "r", "t", "e", "d" >>

C8_Witness ==
  /\ SlugComputed
  /\ links[1] = RepeatedSeparators
  /\ slug = << "/", "a", "/", "b" >>

\* C9: page.content() does not return, and page.close() is not called, while
\* the menu expansion of #expandMenuLinks is still pending.
C9_ExpansionBeforeCapture ==
  pc = "d_close" => expandMenu # "pending"

\* C10: at most one page is open at any time, and none is open when the next
\* page is about to be opened, whatever became of the link before.
C10_OnePageAtATime ==
  /\ pages <= 1
  /\ pc \in { "validate", "loop", "a_newPage" } => pages = 0

C10_Witness ==
  /\ pc = "a_goto"
  /\ pages = 1
  /\ i = 2
  /\ links[1] \in logged

====
